---- MODULE Spec2Model ----
\* Verification model of the threat-analyzer-hub admin console:
\*   - the RBAC tables (roles, user_roles), their stored functions and
\*     row-level-security policies (supabase/migrations/20250912075640_*.sql),
\*   - the RoleManagement and UserManagement components that write them,
\*   - the useRBAC hook and the Admin / TenantManagement access gates,
\*   - the chunkText function and the handler of the embed-documents edge
\*     function, and the vulnerability sync of KnowledgeManager,
\*   - the knowledge_base table with its similarity search match_documents
\*     (supabase/migrations/20250930100654_*.sql),
\*   - the ollama-rag-chat edge function.
EXTENDS Integers, Sequences, FiniteSets, TLC

\* ------------------------------------------------------------------ bounds
MaxOps == 3          \* mutations issued by the admin in one behaviour
MaxRoleId == 4       \* role ids 1..3 are the seed rows, 4.. are created ones
MaxText == 5         \* longest text given to chunkText
MaxSize == 3         \* largest maxChunkSize given to chunkText
MaxOverlap == 4      \* largest overlap given to chunkText
MaxChunks == 7       \* chunks the array can hold before the runtime gives up
MaxFetches == 2      \* permission fetches of useRBAC in flight at once
MaxEntries == 3      \* rows of knowledge_base in a similarity search
MaxCount == 2        \* largest match_count besides the default
MaxRagEntries == 2   \* rows of knowledge_base behind a RAG chat request
MaxHistory == 12     \* longest conversation history sent with a request
MaxDocs == 2         \* documents of one batch ingestion
MaxClientId == 3     \* client ids handed out: c1, c2 and one created tenant

\* --------------------------------------------------------------- RBAC data
\* app_permission enum, in declaration order.
PermOrder ==
  << "manage_users", "manage_roles", "view_all_clients", "manage_clients",
     "view_logs", "manage_logs", "view_assets", "manage_assets",
     "view_reports", "manage_reports" >>

Range(s) == { s[i] : i \in 1..Len(s) }

Permission == Range(PermOrder)

SeedNames == { "Super Admin", "SOC Admin", "Client User" }

\* Names the admin types into the role form.
FormNames == { "Analyst", "SOC Admin" }

\* Permission selections the admin makes in the role form.
FormPermissions == { << "manage_users", "view_logs" >> }

Users == { "u1", "u2" }

NoUser == "none"

\* The rows inserted by the migration ("Insert default roles").
SeedRoles ==
  [ id \in 1..3 |->
      CASE id = 1 -> [ name |-> "Super Admin", permissions |-> PermOrder ]
        [] id = 2 -> [ name |-> "SOC Admin",
                       permissions |-> SubSeq(PermOrder, 3, 10) ]
        [] id = 3 -> [ name |-> "Client User",
                       permissions |->
                         << "view_logs", "view_assets", "view_reports" >> ] ]

VARIABLES
  \* database
  roles,        \* public.roles: id -> [name, permissions]
  user_roles,   \* public.user_roles: set of <<user_id, role_id>>
  nextRoleId,   \* ids handed out so far (gen_random_uuid never repeats)
  \* session of the admin
  actor,        \* auth.uid() of the signed-in admin
  tab,          \* mounted tab of the Admin page: "users" | "roles"
  tabLoading,   \* loading state of the component mounted in that tab
  rmRoles,      \* RoleManagement: roles state
  rmFetches,    \* RoleManagement: fetchRoles responses not yet delivered
  umRoles,      \* UserManagement: roles state
  umUsers,      \* UserManagement: users state, user -> role ids shown
  editingUser,  \* UserManagement: editingUser snapshot or NoEdit
  umFetches,    \* UserManagement: fetchData calls in flight
  toast,        \* last toast shown: "none" | "success" | "error"
  nOps,         \* mutations issued so far
  \* useRBAC hook and the gated page
  user,         \* useAuth().user?.id or NoUser
  permissions,  \* useRBAC: permissions state
  userProfile,  \* useRBAC: userProfile state (user id or NoUser for null)
  loading,      \* useRBAC: loading state
  rbacFetches,  \* fetchUserProfileAndPermissions calls in flight
  page,         \* gated page last opened: "none" | "admin" | "tenants"
  screen,       \* what its gate rendered: "none" | "placeholder" |
                \*   "content" | "redirect"
  lastFetch,    \* outcomes of the fetch that just ran to its end
  \* chunkText
  text, maxChunkSize, overlap, start, chunks, pc,
  \* knowledge base and RAG chat
  knowledge_base,  \* public.knowledge_base: id -> [client_id, dist]
  matchCall,       \* the rpc match_documents last run: arguments and rows
  rag,             \* the ollama-rag-chat request being served
  ingest,          \* the batch ingestion being run
  \* companies, tenants and the TenantManagement page
  clients,         \* public.clients: id -> [company_id, name]
  profiles,        \* public.profiles: user_id -> [company_id, role, client_id]
  nextClientId,    \* position in ClientIds of the next id handed out
  tview,           \* TenantManagement activeTab: "none" | "list" | "edit"
  tenants,         \* TenantTable: tenants state
  tenantFetches,   \* TenantTable: fetchTenants responses not yet delivered
  selectedTenant   \* TenantManagement: selectedTenant or NoTenant

dbVars == << roles, user_roles, nextRoleId >>
uiVars == << actor, tab, tabLoading, rmRoles, rmFetches, umRoles, umUsers,
             editingUser,
             umFetches, toast, nOps >>
hookVars == << user, permissions, userProfile, loading, rbacFetches, page,
               screen, lastFetch >>
chunkVars == << text, maxChunkSize, overlap, start, chunks, pc >>
kbVars == << knowledge_base, matchCall, rag, ingest >>
tenantVars == << clients, profiles, nextClientId, tview, tenants,
                 tenantFetches, selectedTenant >>
vars == << roles, user_roles, nextRoleId,
           actor, tab, tabLoading, rmRoles, rmFetches, umRoles, umUsers,
           editingUser, umFetches, toast, nOps,
           user, permissions, userProfile, loading, rbacFetches, page,
           screen, lastFetch,
           text, maxChunkSize, overlap, start, chunks, pc,
           knowledge_base, matchCall, rag, ingest,
           clients, profiles, nextClientId, tview, tenants, tenantFetches,
           selectedTenant >>

\* ------------------------------------------------------- stored functions
\* FROM user_roles ur JOIN roles r ON ur.role_id = r.id
\* CROSS JOIN LATERAL unnest(r.permissions) AS perm WHERE ur.user_id = u:
\* one row per (assignment, array position).
JoinRows(rs, urs, u) ==
  UNION { { << ur, i >> : i \in 1..Len(rs[ur[2]].permissions) } :
          ur \in { x \in urs : x[1] = u /\ x[2] \in DOMAIN rs } }

RowPerm(rs, row) == rs[row[1][2]].permissions[row[2]]

RECURSIVE AggFrom(_, _, _)
\* array_agg over the join rows whose perm is PermOrder[k..10], each perm
\* taken count(k) times.
AggFrom(k, count, acc) ==
  IF k > Len(PermOrder) THEN acc
  ELSE AggFrom(k + 1, count,
               acc \o [ j \in 1..count[k] |-> PermOrder[k] ])

\* array_agg(perm): every join row contributes one element.
ArrayAggAll(rs, rows) ==
  AggFrom(1, [ k \in 1..Len(PermOrder) |->
                 Cardinality({ row \in rows : RowPerm(rs, row) = PermOrder[k] }) ],
          << >>)

\* array_agg(DISTINCT perm): one element per distinct perm, in enum order.
ArrayAggDistinct(rs, rows) ==
  AggFrom(1, [ k \in 1..Len(PermOrder) |->
                 IF \E row \in rows : RowPerm(rs, row) = PermOrder[k]
                 THEN 1 ELSE 0 ],
          << >>)

\* get_user_permissions with array_agg(perm) in place of
\* array_agg(DISTINCT perm).
get_user_permissions_all(rs, urs, u) ==
  ArrayAggAll(rs, JoinRows(rs, urs, u))

\* public.get_user_permissions(user_uuid); COALESCE(.., '{}') gives the
\* empty array when the join has no row.
get_user_permissions(rs, urs, u) ==
  ArrayAggDistinct(rs, JoinRows(rs, urs, u))

\* public.is_super_admin(user_uuid)
is_super_admin(rs, urs, u) ==
  \E ur \in urs : /\ ur[1] = u
                  /\ ur[2] \in DOMAIN rs
                  /\ rs[ur[2]].name = "Super Admin"

\* ------------------------------------------------------ database writes
\* Policies "Super admins can manage all roles" and "Super admins can manage
\* all user roles": FOR ALL USING (is_super_admin(auth.uid())).
RlsManage == is_super_admin(roles, user_roles, actor)

\* Policy "Users can view their own roles" plus the FOR ALL policy above.
VisibleUserRoles ==
  IF RlsManage THEN user_roles ELSE { ur \in user_roles : ur[1] = actor }

RoleNamesIn(rs) == { rs[id].name : id \in DOMAIN rs }

\* INSERT INTO roles: rejected by the policy's check or by UNIQUE(name).
InsertRoleOk(name) == RlsManage /\ name \notin RoleNamesIn(roles)

InsertRole(name, perms) ==
  [ id \in DOMAIN roles \cup { nextRoleId } |->
      IF id = nextRoleId THEN [ name |-> name, permissions |-> perms ]
      ELSE roles[id] ]

\* UPDATE roles ... WHERE id = r: the rows the policy hides are not
\* touched and no error is raised; UNIQUE(name) raises an error.
UpdateRoleHits(r) == RlsManage /\ r \in DOMAIN roles

UpdateRoleOk(r, name) ==
  ~UpdateRoleHits(r) \/
  name \notin RoleNamesIn([ id \in DOMAIN roles \ { r } |-> roles[id] ])

UpdateRoleRows(r, name, perms) ==
  IF UpdateRoleHits(r)
  THEN [ roles EXCEPT ![r] = [ name |-> name, permissions |-> perms ] ]
  ELSE roles

\* DELETE FROM roles WHERE id = r, with ON DELETE CASCADE of user_roles.
DeleteRoleHits(r) == RlsManage /\ r \in DOMAIN roles

DeleteRoleRows(r) ==
  IF DeleteRoleHits(r)
  THEN [ id \in DOMAIN roles \ { r } |-> roles[id] ]
  ELSE roles

DeleteRoleCascade(r) ==
  IF DeleteRoleHits(r)
  THEN { ur \in user_roles : ur[2] # r }
  ELSE user_roles

\* INSERT INTO user_roles without UNIQUE(user_id, role_id).
InsertUserRoleOk_noUnique(u, r) ==
  /\ RlsManage
  /\ r \in DOMAIN roles

\* INSERT INTO user_roles: policy check, REFERENCES roles(id),
\* UNIQUE(user_id, role_id).
InsertUserRoleOk(u, r) ==
  /\ RlsManage
  /\ r \in DOMAIN roles
  /\ << u, r >> \notin user_roles

\* DELETE FROM user_roles WHERE user_id = u AND role_id = r.
DeleteUserRoleRows(u, r) ==
  IF RlsManage THEN user_roles \ { << u, r >> } ELSE user_roles

\* --------------------------------------------- companies, clients, profiles
\* SQL NULL in a uuid column or argument.
NULL == "null"

\* a = b in SQL: not true when a side is NULL.
SqlEq(a, b) == a # NULL /\ b # NULL /\ a = b

\* Rows of public.companies.
Companies == { "co1", "co2" }

\* app_role enum.
AppRoles == { "super_admin", "soc_admin", "client_user" }

\* The ids gen_random_uuid() gives to the rows of public.clients, in the
\* order of their creation.
ClientIds == << "c1", "c2", "c3", "c4", "c5" >>

\* Names typed into the tenant forms.
TenantNames == { "acme", "apex" }

\* A profiles row as handle_new_user and the column defaults leave it:
\* company_id NULL, role 'client_user', client_id NULL.
DefaultProfile ==
  [ company_id |-> NULL, role |-> "client_user", client_id |-> NULL ]

\* public.user_has_role(_user_id, _role)
user_has_role(pr, u, role) == u \in DOMAIN pr /\ pr[u].role = role

\* public.get_user_company_id(_user_id)
get_user_company_id(pr, u) ==
  IF u \in DOMAIN pr THEN pr[u].company_id ELSE NULL

\* public.user_is_super_admin(_user_id)
user_is_super_admin(pr, u) == user_has_role(pr, u, "super_admin")

\* public.user_is_soc_admin_or_higher(_user_id)
user_is_soc_admin_or_higher(pr, u) ==
  u \in DOMAIN pr /\ pr[u].role \in { "super_admin", "soc_admin" }

\* Policy "Users can view clients from their company".
ClientsSelect(cl, c) ==
  SqlEq(cl[c].company_id, get_user_company_id(profiles, actor))

\* The insert, update and delete policies of clients without the
\* user_is_super_admin condition.
ClientsManage_company(company) ==
  SqlEq(company, get_user_company_id(profiles, actor))

\* Policies "Super admins can manage / update / delete clients in their
\* company".
ClientsManage(company) ==
  /\ SqlEq(company, get_user_company_id(profiles, actor))
  /\ user_is_super_admin(profiles, actor)

\* SELECT * FROM clients as the signed-in user.
VisibleClients(cl) ==
  [ c \in { x \in DOMAIN cl : ClientsSelect(cl, x) } |-> cl[c] ]

\* INSERT INTO clients: rejected by the policy's WITH CHECK.
InsertClientOk(company) == ClientsManage(company)

InsertClient(name, company) ==
  [ c \in DOMAIN clients \cup { ClientIds[nextClientId] } |->
      IF c = ClientIds[nextClientId]
      THEN [ company_id |-> company, name |-> name ]
      ELSE clients[c] ]

\* UPDATE clients SET name, email, settings WHERE id = c: rows the policy
\* hides are not touched and no error is raised.
UpdateClientHits(c) ==
  c \in DOMAIN clients /\ ClientsManage(clients[c].company_id)

UpdateClientRows(c, name) ==
  IF UpdateClientHits(c)
  THEN [ clients EXCEPT ![c] =
           [ company_id |-> clients[c].company_id, name |-> name ] ]
  ELSE clients

\* DELETE FROM clients WHERE id = c: rows the policy hides are not touched;
\* profiles.client_id and knowledge_base.client_id reference clients(id)
\* without ON DELETE, so a referenced row raises an error.
DeleteClientHits(c) ==
  c \in DOMAIN clients /\ ClientsManage(clients[c].company_id)

DeleteClientOk(c) ==
  \/ ~DeleteClientHits(c)
  \/ /\ \A u \in DOMAIN profiles : profiles[u].client_id # c
     /\ \A i \in 1..Len(knowledge_base) : knowledge_base[i].client_id # c

DeleteClientRows(c) ==
  IF DeleteClientHits(c)
  THEN [ x \in DOMAIN clients \ { c } |-> clients[x] ]
  ELSE clients

\* Policies "Users can update their own profile" and "Super admins can
\* manage profiles in their company".
UpdateProfileHits(u) ==
  /\ u \in DOMAIN profiles
  /\ \/ actor = u
     \/ /\ SqlEq(profiles[u].company_id,
                 get_user_company_id(profiles, actor))
        /\ user_is_super_admin(profiles, actor)

\* UPDATE profiles SET display_name, client_id WHERE user_id = u:
\* client_id REFERENCES clients(id).
UpdateProfileOk(u, cid) ==
  ~UpdateProfileHits(u) \/ cid = NULL \/ cid \in DOMAIN clients

UpdateProfileRows(u, cid) ==
  IF UpdateProfileHits(u)
  THEN [ profiles EXCEPT ![u] =
           [ company_id |-> profiles[u].company_id,
             role |-> profiles[u].role, client_id |-> cid ] ]
  ELSE profiles

\* ------------------------------------------------------- RoleManagement
\* fetchRoles(): the select is answered with the table as it is when the
\* request is issued; the response is delivered later.
IssueFetchRoles(rs) == rmFetches \cup { rs }

\* Delivery of a fetchRoles response: setRoles(data || []) or, on error,
\* a toast and no change of the list; then setLoading(false).
FetchRolesDone ==
  /\ tab = "roles"
  /\ \E snap \in rmFetches, ok \in BOOLEAN :
       /\ rmFetches' = rmFetches \ { snap }
       /\ IF ok THEN rmRoles' = snap /\ toast' = toast
                ELSE rmRoles' = rmRoles /\ toast' = "error"
  /\ tabLoading' = FALSE
  /\ UNCHANGED << dbVars, actor, tab, umRoles, umUsers, editingUser,
                  umFetches, nOps, hookVars, chunkVars,
                  kbVars, tenantVars >>

\* createRole(roleData), submitted from the form with no role being edited.
CreateRole ==
  /\ tab = "roles"
  /\ ~tabLoading
  /\ nOps < MaxOps
  /\ nextRoleId <= MaxRoleId
  /\ \E name \in FormNames, perms \in FormPermissions, net \in BOOLEAN :
       IF net /\ InsertRoleOk(name)
       THEN /\ roles' = InsertRole(name, perms)
            /\ nextRoleId' = nextRoleId + 1
            /\ toast' = "success"
            /\ rmFetches' = IssueFetchRoles(roles')
       ELSE /\ toast' = "error"
            /\ UNCHANGED << roles, nextRoleId, rmFetches >>
  /\ nOps' = nOps + 1
  /\ UNCHANGED << user_roles, actor, tab, tabLoading, rmRoles, umRoles,
                  umUsers,
                  editingUser, umFetches, hookVars, chunkVars,
                  kbVars, tenantVars >>

\* updateRole(roleId, roleData), submitted from the form opened by the edit
\* button of a listed role; the form starts from the listed values.
UpdateRole ==
  /\ tab = "roles"
  /\ ~tabLoading
  /\ nOps < MaxOps
  /\ \E r \in DOMAIN rmRoles, net \in BOOLEAN :
     \E name \in FormNames \cup { rmRoles[r].name },
        perms \in FormPermissions \cup { rmRoles[r].permissions } :
       IF net /\ UpdateRoleOk(r, name)
       THEN /\ roles' = UpdateRoleRows(r, name, perms)
            /\ toast' = "success"
            /\ rmFetches' = IssueFetchRoles(roles')
       ELSE /\ toast' = "error"
            /\ UNCHANGED << roles, rmFetches >>
  /\ nOps' = nOps + 1
  /\ UNCHANGED << user_roles, nextRoleId, actor, tab, tabLoading, rmRoles,
                  umRoles,
                  umUsers, editingUser, umFetches, hookVars, chunkVars,
                  kbVars, tenantVars >>

\* The delete button of a listed role is disabled when the listed name is
\* one of the three seed names.
DeleteEnabled(r) ==
  r \in DOMAIN rmRoles /\ rmRoles[r].name \notin SeedNames

\* deleteRole(roleId, roleName) from the delete button; declining the
\* confirm() dialog returns before anything is sent.
DeleteRole ==
  /\ tab = "roles"
  /\ ~tabLoading
  /\ nOps < MaxOps
  /\ \E r \in DOMAIN rmRoles, confirmed \in BOOLEAN, net \in BOOLEAN :
       /\ DeleteEnabled(r)
       /\ IF ~confirmed
          THEN UNCHANGED << roles, user_roles, toast, rmFetches >>
          ELSE IF net
          THEN /\ roles' = DeleteRoleRows(r)
               /\ user_roles' = DeleteRoleCascade(r)
               /\ toast' = "success"
               /\ rmFetches' = IssueFetchRoles(roles')
          ELSE /\ toast' = "error"
               /\ UNCHANGED << roles, user_roles, rmFetches >>
       /\ nOps' = IF confirmed THEN nOps + 1 ELSE nOps
  /\ UNCHANGED << nextRoleId, actor, tab, tabLoading, rmRoles, umRoles,
                  umUsers,
                  editingUser, umFetches, hookVars, chunkVars,
                  kbVars, tenantVars >>

\* ------------------------------------------------------- UserManagement
\* Results of the selects of fetchData that come back without data.
FetchOutcomes == { "ok", "users_error", "roles_error", "user_roles_error",
                   "throw" }

EmptyList == << >>

\* editingUser = null
NoEdit == [ user_id |-> NoUser, roles |-> {} ]

\* fetchData(): Promise.all of the profiles, roles and clients selects.
IssueFetchData(rs) ==
  umFetches \cup { [ stage |-> "all", roles |-> rs, urs |-> {} ] }

\* fetchData() after the Promise.all: the user_roles select is issued and
\* answered with the rows the policies let the admin see.
FetchDataUserRoles ==
  /\ tab = "users"
  /\ \E f \in umFetches :
       /\ f.stage = "all"
       /\ umFetches' = (umFetches \ { f }) \cup
            { [ stage |-> "user_roles", roles |-> f.roles,
                urs |-> VisibleUserRoles ] }
  /\ UNCHANGED << dbVars, actor, tab, tabLoading, rmRoles, rmFetches,
                  umRoles, umUsers,
                  editingUser, toast, nOps, hookVars, chunkVars,
                  kbVars, tenantVars >>

\* users.map(user => ({...user, roles: userRoles of that user}))
UsersWithRoles(urs) ==
  [ u \in Users |-> { ur[2] : ur \in { x \in urs : x[1] = u } } ]

\* fetchData() after the user_roles select: setUsers, setRoles; then
\* setLoading(false).
FetchDataDone ==
  /\ tab = "users"
  /\ \E f \in umFetches, out \in FetchOutcomes :
       /\ f.stage = "user_roles"
       /\ umFetches' = umFetches \ { f }
       /\ IF out = "throw"
          THEN /\ toast' = "error"
               /\ UNCHANGED << umUsers, umRoles >>
          ELSE /\ toast' = toast
               /\ umUsers' =
                    IF out = "users_error" THEN umUsers
                    ELSE UsersWithRoles(IF out = "user_roles_error"
                                        THEN {} ELSE f.urs)
               /\ umRoles' =
                    IF out = "roles_error" THEN EmptyList ELSE f.roles
  /\ tabLoading' = FALSE
  /\ UNCHANGED << dbVars, actor, tab, rmRoles, rmFetches, editingUser,
                  nOps, hookVars, chunkVars,
                  kbVars, tenantVars >>

\* Edit button of a listed user: setEditingUser(user).
EditUser ==
  /\ tab = "users"
  /\ ~tabLoading
  /\ \E u \in DOMAIN umUsers :
       /\ editingUser # [ user_id |-> u, roles |-> umUsers[u] ]
       /\ editingUser' = [ user_id |-> u, roles |-> umUsers[u] ]
  /\ UNCHANGED << dbVars, actor, tab, tabLoading, rmRoles, rmFetches,
                  umRoles, umUsers,
                  umFetches, toast, nOps, hookVars, chunkVars,
                  kbVars, tenantVars >>

\* Roles offered by the select of the user form.
Assignable ==
  IF editingUser = NoEdit THEN {}
  ELSE DOMAIN umRoles \ editingUser.roles

\* assignRole(userId, roleId) from the Assign button of the user form.
AssignRole ==
  /\ tab = "users"
  /\ ~tabLoading
  /\ nOps < MaxOps
  /\ \E r \in Assignable, net \in BOOLEAN :
       IF net /\ InsertUserRoleOk(editingUser.user_id, r)
       THEN /\ user_roles' = user_roles \cup { << editingUser.user_id, r >> }
            /\ toast' = "success"
            /\ umFetches' = IssueFetchData(roles)
       ELSE /\ toast' = "error"
            /\ UNCHANGED << user_roles, umFetches >>
  /\ nOps' = nOps + 1
  /\ UNCHANGED << roles, nextRoleId, actor, tab, tabLoading, rmRoles,
                  rmFetches, umRoles,
                  umUsers, editingUser, hookVars, chunkVars,
                  kbVars, tenantVars >>

\* removeRole(userId, roleId) from the badge of a role of the edited user.
RemoveRole ==
  /\ tab = "users"
  /\ ~tabLoading
  /\ nOps < MaxOps
  /\ editingUser # NoEdit
  /\ \E r \in editingUser.roles, net \in BOOLEAN :
       IF net
       THEN /\ user_roles' = DeleteUserRoleRows(editingUser.user_id, r)
            /\ toast' = "success"
            /\ umFetches' = IssueFetchData(roles)
       ELSE /\ toast' = "error"
            /\ UNCHANGED << user_roles, umFetches >>
  /\ nOps' = nOps + 1
  /\ UNCHANGED << roles, nextRoleId, actor, tab, tabLoading, rmRoles,
                  rmFetches, umRoles,
                  umUsers, editingUser, hookVars, chunkVars,
                  kbVars, tenantVars >>

\* updateUserProfile(userId, {display_name, client_id}) from the user form;
\* the client select offers 'none' and the clients the admin can see.
UpdateUserProfile ==
  /\ tab = "users"
  /\ ~tabLoading
  /\ nOps < MaxOps
  /\ editingUser # NoEdit
  /\ \E cid \in { NULL } \cup DOMAIN VisibleClients(clients),
        net \in BOOLEAN :
       IF net /\ UpdateProfileOk(editingUser.user_id, cid)
       THEN /\ profiles' = UpdateProfileRows(editingUser.user_id, cid)
            /\ toast' = "success"
            /\ umFetches' = IssueFetchData(roles)
       ELSE /\ toast' = "error"
            /\ UNCHANGED << profiles, umFetches >>
  /\ nOps' = nOps + 1
  /\ UNCHANGED << dbVars, actor, tab, tabLoading, rmRoles, rmFetches,
                  umRoles, umUsers,
                  editingUser, hookVars, chunkVars, kbVars, clients,
                  nextClientId, tview, tenants, tenantFetches,
                  selectedTenant >>

\* Tabs of the Admin page: the content of the tab that is left is
\* unmounted, the content of the selected tab mounts and fetches.
SwitchTab ==
  /\ tab \in { "users", "roles" }
  /\ IF tab = "users"
     THEN /\ tab' = "roles"
          /\ rmFetches' = { roles }
          /\ umFetches' = {}
     ELSE /\ tab' = "users"
          /\ rmFetches' = {}
          /\ umFetches' = { [ stage |-> "all", roles |-> roles, urs |-> {} ] }
  /\ tabLoading' = TRUE
  /\ rmRoles' = EmptyList
  /\ umRoles' = EmptyList
  /\ umUsers' = EmptyList
  /\ editingUser' = NoEdit
  /\ UNCHANGED << dbVars, actor, toast, nOps, hookVars, chunkVars,
                  kbVars, tenantVars >>

\* ------------------------------------------------------------- admin spec
NoFetch == [ profile |-> "none", perms |-> "none" ]

HookIdle ==
  /\ user = NoUser /\ permissions = << >> /\ userProfile = NoUser
  /\ loading = TRUE /\ rbacFetches = {} /\ page = "none"
  /\ screen = "none" /\ lastFetch = NoFetch

ChunkIdle ==
  /\ text = << >> /\ maxChunkSize = 1 /\ overlap = 0 /\ start = 0
  /\ chunks = << >> /\ pc = "idle"

\* No rpc match_documents has run.
NoCall ==
  [ called |-> FALSE, threshold |-> 0, count |-> 0, filter |-> NULL,
    plan |-> "none", result |-> << >> ]

\* No response has been sent.
NoResponse ==
  [ status |-> 0, error |-> FALSE, response |-> "none", documentsFound |-> 0,
    hasContext |-> FALSE ]

\* No request is being served by ollama-rag-chat.
NoRequest ==
  [ pc |-> "idle", parsed |-> FALSE, message |-> FALSE, clientId |-> NULL,
    history |-> << >>, embedOutcome |-> "none", searchOutcome |-> "none",
    chatOutcome |-> "none", docsNull |-> TRUE, docs |-> << >>,
    context |-> << >>, messages |-> << >>, response |-> NoResponse ]

\* No batch ingestion is running.
NoIngest ==
  [ pc |-> "idle", handler |-> "none", parsed |-> FALSE, isArray |-> FALSE,
    documents |-> << >>, clientId |-> NULL, doc |-> 0, outcomes |-> << >>,
    embeddedChunks |-> << >>, insert |-> "none",
    response |-> [ kind |-> "none", status |-> 0, chunksProcessed |-> 0 ] ]

KbIdle ==
  /\ knowledge_base = << >> /\ matchCall = NoCall /\ rag = NoRequest
  /\ ingest = NoIngest

\* selectedTenant = null
NoTenant == [ id |-> NULL, name |-> NULL ]

\* Two tenants, one in each company.
SeedClients ==
  [ c \in { "c1", "c2" } |->
      [ company_id |-> IF c = "c1" THEN "co1" ELSE "co2",
        name |-> IF c = "c1" THEN "acme" ELSE "apex" ] ]

\* Nobody has been given a company or a role of the app_role enum.
DefaultProfiles == [ u \in Users |-> DefaultProfile ]

\* u1 is the super admin of company co1, u2 a user of company co2.
CompanyProfiles ==
  [ u \in Users |->
      IF u = "u1"
      THEN [ company_id |-> "co1", role |-> "super_admin",
             client_id |-> NULL ]
      ELSE [ company_id |-> "co2", role |-> "client_user",
             client_id |-> NULL ] ]

\* The TenantManagement page is not open.
TenantPageIdle ==
  /\ nextClientId = 3 /\ tview = "none" /\ tenants = EmptyList
  /\ tenantFetches = {} /\ selectedTenant = NoTenant

TenantIdle ==
  /\ clients = SeedClients /\ profiles = DefaultProfiles /\ TenantPageIdle

CompanyIdle ==
  /\ clients = SeedClients /\ profiles = CompanyProfiles /\ TenantPageIdle

\* The seed rows, the first super admin (assigned outside the console) and
\* the Admin page just mounted on its default tab.
InitAdmin ==
  /\ roles = SeedRoles
  /\ user_roles = { << "u1", 1 >> }
  /\ nextRoleId = 4
  /\ actor = "u1"
  /\ tab = "users"
  /\ tabLoading = TRUE
  /\ rmRoles = EmptyList
  /\ rmFetches = {}
  /\ umRoles = EmptyList
  /\ umUsers = EmptyList
  /\ editingUser = NoEdit
  /\ umFetches = { [ stage |-> "all", roles |-> SeedRoles, urs |-> {} ] }
  /\ toast = "none"
  /\ nOps = 0
  /\ HookIdle
  /\ ChunkIdle
  /\ KbIdle
  /\ TenantIdle

NextAdmin ==
  \/ FetchRolesDone
  \/ CreateRole
  \/ UpdateRole
  \/ DeleteRole
  \/ FetchDataUserRoles
  \/ FetchDataDone
  \/ EditUser
  \/ AssignRole
  \/ RemoveRole
  \/ UpdateUserProfile
  \/ SwitchTab

SpecAdmin == InitAdmin /\ [][NextAdmin]_vars

\* ---------------------------------------------------------------- useRBAC
\* permissions.includes(permission)
hasPermission(perms, p) == \E i \in 1..Len(perms) : perms[i] = p

\* requiredPermissions.every(permission => permissions.includes(permission))
hasAnyPermission_every(perms, required) ==
  \A j \in 1..Len(required) : hasPermission(perms, required[j])

\* requiredPermissions.some(permission => permissions.includes(permission))
hasAnyPermission(perms, required) ==
  \E j \in 1..Len(required) : hasPermission(perms, required[j])

\* hasPermission('manage_users') || hasPermission('manage_roles')
isSuperAdmin_or(perms) ==
  hasPermission(perms, "manage_users") \/ hasPermission(perms, "manage_roles")

\* hasPermission('manage_users') && hasPermission('manage_roles')
isSuperAdmin(perms) ==
  hasPermission(perms, "manage_users") /\ hasPermission(perms, "manage_roles")

\* Admin gate with the loading check left out.
AdminGate_noLoading(ld, perms) ==
  IF ~hasPermission(perms, "manage_users")
     /\ ~hasPermission(perms, "manage_roles")
  THEN "redirect"
  ELSE "content"

\* Admin(): skeleton while loading, <Navigate to="/"> without admin
\* permission, the admin panel otherwise.
AdminGate(ld, perms) ==
  IF ld THEN "placeholder"
  ELSE IF ~hasPermission(perms, "manage_users")
          /\ ~hasPermission(perms, "manage_roles")
  THEN "redirect"
  ELSE "content"

\* TenantManagement(): canManageTenants = isSuperAdmin().
TenantGate(ld, perms) ==
  IF ld THEN "placeholder"
  ELSE IF ~isSuperAdmin(perms) THEN "redirect"
  ELSE "content"

Gate(pg, ld, perms) ==
  IF pg = "admin" THEN AdminGate(ld, perms) ELSE TenantGate(ld, perms)

Mounted == screen \in { "placeholder", "content" }

\* Results of a select or rpc call: data, an error result (data null),
\* null data without error, or a thrown exception.
CallOutcomes == { "ok", "error", "null", "throw" }

\* A fetch that ends without exception with the permissions fetch failing
\* no longer sets the permissions (setPermissions(permissionsData) only
\* when there is data).
PermsAfter_keep(out, data, old) ==
  IF out = "ok" THEN data ELSE old

\* setPermissions(permissionsData || []) and, in the catch block,
\* setPermissions([]).
PermsAfter(out, data, old) ==
  IF out = "ok" THEN data ELSE << >>

\* The useEffect on user?.id and the call of
\* fetchUserProfileAndPermissions up to its first await.
StartFetch(u) ==
  { [ uid |-> u, stage |-> "profile", profile |-> "none", data |-> << >> ] }

\* A gated page is opened: the hook starts with permissions [], profile
\* null and loading true, then its effect runs.
Mount ==
  /\ \E pg \in { "admin", "tenants" } :
       /\ ~(Mounted /\ page = pg)
       /\ page' = pg
  /\ permissions' = << >>
  /\ userProfile' = NoUser
  /\ IF user # NoUser
     THEN /\ loading' = TRUE
          /\ rbacFetches' = StartFetch(user)
     ELSE /\ loading' = FALSE
          /\ rbacFetches' = {}
  /\ screen' = Gate(page', loading', permissions')
  /\ lastFetch' = NoFetch
  /\ UNCHANGED << user, dbVars, tenantVars, uiVars, chunkVars, kbVars >>

\* useAuth().user changes (sign-in, sign-out, another user): the effect of
\* a mounted hook runs again; loading is not set back to true.
AuthChange ==
  /\ \E u \in Users \cup { NoUser } :
       /\ u # user
       /\ user' = u
  /\ IF ~Mounted
     THEN UNCHANGED << permissions, userProfile, loading, rbacFetches,
                       screen >>
     ELSE /\ IF user' # NoUser
             THEN /\ Cardinality(rbacFetches) < MaxFetches
                  /\ rbacFetches' = rbacFetches \cup StartFetch(user')
                  /\ UNCHANGED << permissions, userProfile, loading >>
             ELSE /\ permissions' = << >>
                  /\ userProfile' = NoUser
                  /\ loading' = FALSE
                  /\ UNCHANGED rbacFetches
          /\ screen' = Gate(page, loading', permissions')
  /\ lastFetch' = NoFetch
  /\ UNCHANGED << page, dbVars, tenantVars, uiVars, chunkVars, kbVars >>

\* The profiles select of a fetch returns: setUserProfile(profile) and the
\* rpc get_user_permissions is issued; an exception goes to the catch
\* block (setPermissions([])) and the finally block (setLoading(false)).
ProfileDone ==
  /\ Mounted
  /\ \E f \in rbacFetches, out \in CallOutcomes :
       /\ f.stage = "profile"
       /\ IF out = "throw"
          THEN /\ rbacFetches' = rbacFetches \ { f }
               /\ permissions' = << >>
               /\ loading' = FALSE
               /\ lastFetch' = [ profile |-> "throw", perms |-> "none" ]
               /\ UNCHANGED userProfile
          ELSE /\ rbacFetches' = (rbacFetches \ { f }) \cup
                    { [ uid |-> f.uid, stage |-> "perms", profile |-> out,
                        data |-> get_user_permissions(roles, user_roles,
                                                      f.uid) ] }
               /\ userProfile' = IF out = "ok" THEN f.uid ELSE NoUser
               /\ lastFetch' = NoFetch
               /\ UNCHANGED << permissions, loading >>
  /\ screen' = Gate(page, loading', permissions')
  /\ UNCHANGED << user, page, dbVars, tenantVars, uiVars, chunkVars, kbVars >>

\* The rpc of a fetch returns: setPermissions(permissionsData || []), or
\* the catch block; then setLoading(false).
PermsDone ==
  /\ Mounted
  /\ \E f \in rbacFetches, out \in CallOutcomes :
       /\ f.stage = "perms"
       /\ rbacFetches' = rbacFetches \ { f }
       /\ permissions' = PermsAfter(out, f.data, permissions)
       /\ lastFetch' = [ profile |-> f.profile, perms |-> out ]
  /\ loading' = FALSE
  /\ screen' = Gate(page, loading', permissions')
  /\ UNCHANGED << user, userProfile, page, dbVars, tenantVars, uiVars,
                  chunkVars, kbVars >>

\* <Navigate to="/" replace />, or the user leaving the page: the gated
\* page unmounts and its pending state updates are dropped.
Leave ==
  /\ screen \in { "placeholder", "content", "redirect" }
  /\ screen' = "none"
  /\ page' = "none"
  /\ rbacFetches' = {}
  /\ permissions' = << >>
  /\ userProfile' = NoUser
  /\ loading' = TRUE
  /\ lastFetch' = NoFetch
  /\ UNCHANGED << user, dbVars, tenantVars, uiVars, chunkVars, kbVars >>

AdminIdle ==
  /\ actor = "u1" /\ tab = "users" /\ tabLoading = TRUE
  /\ rmRoles = EmptyList
  /\ rmFetches = {} /\ umRoles = EmptyList /\ umUsers = EmptyList
  /\ editingUser = NoEdit /\ umFetches = {} /\ toast = "none" /\ nOps = 0

\* Database states the console reaches: the seed roles, a created role
\* "Analyst", the first super admin and any assignment of u2.
InitGate ==
  /\ roles = [ id \in 1..4 |->
                IF id = 4
                THEN [ name |-> "Analyst",
                       permissions |-> << "manage_users", "view_logs" >> ]
                ELSE SeedRoles[id] ]
  /\ nextRoleId = 5
  /\ \E S \in SUBSET { 3, 4 } :
       user_roles = { << "u1", 1 >> } \cup { << "u2", r >> : r \in S }
  /\ AdminIdle
  /\ HookIdle
  /\ KbIdle
  /\ ChunkIdle
  /\ TenantIdle

NextGate ==
  \/ Mount
  \/ AuthChange
  \/ ProfileDone
  \/ PermsDone
  \/ Leave

SpecGate == InitGate /\ [][NextGate]_vars

\* -------------------------------------------------------------- chunkText
DefaultMaxChunkSize == 1000

DefaultOverlap == 100

Min(a, b) == IF a < b THEN a ELSE b

Max(a, b) == IF a > b THEN a ELSE b

\* String.prototype.slice(s, e): a negative index counts from the end,
\* indexes are clamped to 0..length, an empty range gives "".
SliceFrom(t, s) == IF s < 0 THEN Max(Len(t) + s, 0) ELSE Min(s, Len(t))

Slice(t, s, e) ==
  IF SliceFrom(t, s) < SliceFrom(t, e)
  THEN SubSeq(t, SliceFrom(t, s) + 1, SliceFrom(t, e))
  ELSE << >>

\* const end = Math.min(start + maxChunkSize, text.length)
ChunkEnd == Min(start + maxChunkSize, Len(text))

\* The loop written as do ... while: the body runs before the condition
\* start < text.length is looked at.
ChunkIterate_doWhile ==
  /\ pc = "loop"
  /\ Len(chunks) < MaxChunks
  /\ chunks' = Append(chunks, Slice(text, start, ChunkEnd))
  /\ start' = ChunkEnd - overlap
  /\ pc' = IF start' >= Len(text) THEN "done" ELSE "loop"
  /\ UNCHANGED << text, maxChunkSize, overlap, dbVars, tenantVars, uiVars,
                  hookVars, kbVars >>

\* One iteration of the while loop: push the window, move start back by
\* the overlap, break when start has reached the end of the text.
ChunkIterate ==
  /\ pc = "loop"
  /\ start < Len(text)
  /\ Len(chunks) < MaxChunks
  /\ chunks' = Append(chunks, Slice(text, start, ChunkEnd))
  /\ start' = ChunkEnd - overlap
  /\ pc' = IF start' >= Len(text) THEN "done" ELSE "loop"
  /\ UNCHANGED << text, maxChunkSize, overlap, dbVars, tenantVars, uiVars,
                  hookVars, kbVars >>

\* The loop condition start < text.length is false: return chunks.
ChunkReturn ==
  /\ pc = "loop"
  /\ ~(start < Len(text))
  /\ pc' = "done"
  /\ UNCHANGED << text, maxChunkSize, overlap, start, chunks, dbVars,
                  tenantVars,
                  uiVars, hookVars, kbVars >>

\* The loop is entered again with the chunks array at the size the
\* runtime can hold: the call dies without returning.
ChunkExhaust ==
  /\ pc = "loop"
  /\ start < Len(text)
  /\ Len(chunks) >= MaxChunks
  /\ pc' = "exhausted"
  /\ UNCHANGED << text, maxChunkSize, overlap, start, chunks, dbVars,
                  tenantVars,
                  uiVars, hookVars, kbVars >>

\* Calls chunkText(text, maxChunkSize, overlap): the parameter defaults and
\* small sizes, on texts whose characters are numbered by position.
InitChunk ==
  /\ \E n \in 0..MaxText : text = [ i \in 1..n |-> i ]
  /\ \E m \in (1..MaxSize) \cup { DefaultMaxChunkSize },
        o \in (0..MaxOverlap) \cup { DefaultOverlap } :
       /\ (m = DefaultMaxChunkSize) = (o = DefaultOverlap)
       /\ maxChunkSize = m
       /\ overlap = o
  /\ start = 0
  /\ chunks = << >>
  /\ pc = "loop"
  /\ roles = SeedRoles
  /\ user_roles = { << "u1", 1 >> }
  /\ nextRoleId = 4
  /\ AdminIdle
  /\ HookIdle
  /\ KbIdle
  /\ TenantIdle

NextChunk ==
  \/ ChunkIterate
  \/ ChunkReturn
  \/ ChunkExhaust

SpecChunk == InitChunk /\ [][NextChunk]_vars

\* The loop runs without waiting on anything: an enabled step is taken.
SpecChunkFair == SpecChunk /\ WF_vars(NextChunk)

\* Lengths of the document contents handed to chunkText by the
\* embed-documents handler, which passes no maxChunkSize and no overlap.
DocLengths ==
  { 0, 1, 50, 99, 100, 101, 150, 999, 1000, 1001, 1050, 1900, 1901, 2500 }

\* const chunks = chunkText(doc.content)
InitDoc ==
  /\ \E n \in DocLengths : text = [ i \in 1..n |-> i ]
  /\ maxChunkSize = DefaultMaxChunkSize
  /\ overlap = DefaultOverlap
  /\ start = 0
  /\ chunks = << >>
  /\ pc = "loop"
  /\ roles = SeedRoles
  /\ user_roles = { << "u1", 1 >> }
  /\ nextRoleId = 4
  /\ AdminIdle
  /\ HookIdle
  /\ KbIdle
  /\ TenantIdle

SpecDoc == InitDoc /\ [][NextChunk]_vars

\* --------------------------------------------------------- knowledge base
\* Distances and similarities are counted in tenths: 7 stands for 0.7.
DefaultMatchThreshold == 7

DefaultMatchCount == 5

Clients == { "c1", "c2" }

\* embedding <=> query_embedding of the stored rows, for the one query of a
\* behaviour.
Dists == { 1, 3, 4 }

KbRows == [ client_id : Clients \cup { NULL }, dist : Dists ]

\* 1 - (knowledge_base.embedding <=> query_embedding)
Similarity(dist) == 10 - dist

\* The client filter read as "the rows of the client, or the global rows
\* for no client": client_id IS NOT DISTINCT FROM filter_client_id.
ClientFilter_global(row, f) == row.client_id = f

\* (filter_client_id IS NULL OR knowledge_base.client_id = filter_client_id)
\* A row whose client_id is NULL never equals a given filter.
ClientFilter(row, f) ==
  f = NULL \/ (row.client_id # NULL /\ row.client_id = f)

\* The WHERE clause with >= in place of >.
MatchQualifies_ge(row, thr, f) ==
  ClientFilter(row, f) /\ Similarity(row.dist) >= thr

\* WHERE (filter_client_id IS NULL OR client_id = filter_client_id)
\*   AND 1 - (embedding <=> query_embedding) > match_threshold
MatchQualifies(row, thr, f) ==
  ClientFilter(row, f) /\ Similarity(row.dist) > thr

\* The rows the executor reads. A sequential scan reads every row; a scan
\* of the ivfflat index on embedding reads the rows of the lists it probes,
\* which can be any part of the table.
Scans(kb, plan) ==
  IF plan = "seq" THEN { DOMAIN kb } ELSE SUBSET (DOMAIN kb)

\* ORDER BY embedding <=> query_embedding: every arrangement of the ids Q
\* by ascending distance (rows at the same distance come in any order).
OrderBy(kb, Q) ==
  { s \in [ 1..Cardinality(Q) -> Q ] :
      \A i, j \in 1..Cardinality(Q) :
        i < j => s[i] # s[j] /\ kb[s[i]].dist <= kb[s[j]].dist }

\* LIMIT match_count
Limit(s, n) == SubSeq(s, 1, Min(n, Len(s)))

\* SELECT id, client_id, 1 - (embedding <=> query_embedding) AS similarity
RowOut(kb, id) ==
  [ id |-> id, client_id |-> kb[id].client_id,
    similarity |-> Similarity(kb[id].dist) ]

\* The results match_documents(query, thr, n, f) can return.
match_documents(kb, thr, n, f, plan) ==
  UNION { { [ i \in 1..Len(Limit(s, n)) |-> RowOut(kb, Limit(s, n)[i]) ] :
            s \in OrderBy(kb,
                    { id \in S : MatchQualifies(kb[id], thr, f) }) } :
          S \in Scans(kb, plan) }

Thresholds == { DefaultMatchThreshold, 8 }

Counts == (0..MaxCount) \cup { DefaultMatchCount }

\* A client calls supabase.rpc('match_documents', ...).
CallMatchDocuments ==
  /\ ~matchCall.called
  /\ \E thr \in Thresholds, n \in Counts, f \in Clients \cup { NULL },
        plan \in { "seq", "ivfflat" } :
       \E res \in match_documents(knowledge_base, thr, n, f, plan) :
         matchCall' = [ called |-> TRUE, threshold |-> thr, count |-> n,
                        filter |-> f, plan |-> plan, result |-> res ]
  /\ UNCHANGED << knowledge_base, rag, ingest, dbVars, tenantVars, uiVars,
                  hookVars,
                  chunkVars >>

KbTables(n) == UNION { [ 1..k -> KbRows ] : k \in 0..n }

InitSearch ==
  /\ knowledge_base \in KbTables(MaxEntries)
  /\ matchCall = NoCall
  /\ rag = NoRequest
  /\ ingest = NoIngest
  /\ roles = SeedRoles
  /\ user_roles = { << "u1", 1 >> }
  /\ nextRoleId = 4
  /\ AdminIdle
  /\ HookIdle
  /\ ChunkIdle
  /\ CompanyIdle

NextSearch == CallMatchDocuments

SpecSearch == InitSearch /\ [][NextSearch]_vars

\* --------------------------------------------------------- ollama-rag-chat
HistoryKeep == 10

\* Array.prototype.slice(s) with one argument: from s (negative: counted
\* from the end) to the end of the array.
ArraySlice(h, s) == SubSeq(h, SliceFrom(h, s) + 1, Len(h))

\* conversationHistory.slice(0, 10): the first items instead of the last.
HistoryTail_first(h) == SubSeq(h, 1, Min(HistoryKeep, Len(h)))

\* conversationHistory.slice(-10)
HistoryTail(h) == ArraySlice(h, 0 - HistoryKeep)

\* The i-th item of a conversation: turns of the user and the assistant.
HistoryItem(i) ==
  [ role |-> IF i % 2 = 1 THEN "user" ELSE "assistant",
    content |-> ToString(i) ]

Histories == { [ i \in 1..n |-> HistoryItem(i) ] : n \in 0..MaxHistory }

ContextHeader == "Relevant information from the knowledge base:"

\* The context string with the header written whether or not rows came.
BuildContext_header(docsNull, docs) ==
  << ContextHeader >> \o [ i \in 1..Len(docs) |-> ToString(docs[i].id) ]

\* let context = ''; if (relevantDocs && relevantDocs.length > 0) context =
\* header + numbered contents. The string is held as its list of lines,
\* '' as the empty list.
BuildContext(docsNull, docs) ==
  IF ~docsNull /\ Len(docs) > 0
  THEN << ContextHeader >> \o [ i \in 1..Len(docs) |-> ToString(docs[i].id) ]
  ELSE << >>

\* The variant of the system prompt chosen by context ? ... : ...
SystemPrompt(context) ==
  IF context # << >> THEN "use the provided context"
  ELSE "answer based on your general knowledge"

\* const messages = [system, ...conversationHistory.slice(-10), user]
BuildMessages(context, history) ==
  << [ role |-> "system", content |-> SystemPrompt(context) ] >>
    \o HistoryTail(history)
    \o << [ role |-> "user", content |-> "message" ] >>

\* relevantDocs?.length || 0
DocumentsFound(docsNull, docs) == IF docsNull THEN 0 ELSE Len(docs)

\* !!context
HasContext(context) == context # << >>

\* The response of the success path (status 200 by default).
SuccessResponse(answer, docsNull, docs, context) ==
  [ status |-> 200, error |-> FALSE, response |-> answer,
    documentsFound |-> DocumentsFound(docsNull, docs),
    hasContext |-> HasContext(context) ]

\* The catch block answering with the default status.
CatchResponse_200 ==
  [ status |-> 200, error |-> TRUE, response |-> "fallback",
    documentsFound |-> 0, hasContext |-> FALSE ]

\* The response of the catch block: {error, response: fallback}, status 500
\* (it carries no context object).
CatchResponse ==
  [ status |-> 500, error |-> TRUE, response |-> "fallback",
    documentsFound |-> 0, hasContext |-> FALSE ]

\* await req.json() and the check of message and clientId.
RagValidate ==
  /\ rag.pc = "start"
  /\ rag' = IF ~rag.parsed \/ ~rag.message \/ rag.clientId = NULL
            THEN [ rag EXCEPT !.pc = "done", !.response = CatchResponse ]
            ELSE [ rag EXCEPT !.pc = "embed" ]
  /\ UNCHANGED << knowledge_base, matchCall, ingest, dbVars, tenantVars,
                  uiVars,
                  hookVars, chunkVars >>

\* What the call of /api/embeddings can come to: a body with the embedding
\* array, an ok body without it, a non-ok status, a rejected fetch or a
\* body that is not JSON.
EmbedOutcomes == { "ok", "invalid", "status", "throw" }

\* The query embedding is fetched; a non-ok status and an exception end in
\* the catch block, anything else becomes queryEmbedding unchecked.
RagEmbed ==
  /\ rag.pc = "embed"
  /\ \E out \in EmbedOutcomes :
       rag' = IF out \in { "status", "throw" }
              THEN [ rag EXCEPT !.pc = "done", !.embedOutcome = out,
                                !.response = CatchResponse ]
              ELSE [ rag EXCEPT !.pc = "search", !.embedOutcome = out ]
  /\ UNCHANGED << knowledge_base, matchCall, ingest, dbVars, tenantVars,
                  uiVars,
                  hookVars, chunkVars >>

\* supabase.rpc('match_documents', {queryEmbedding, 0.7, 5, clientId}) with
\* the service role. It resolves to rows or to an error with data null
\* (always an error when queryEmbedding is undefined); the error is only
\* logged. Then context, systemPrompt and messages are built.
RagSearch ==
  /\ rag.pc = "search"
  /\ \E out \in { "ok", "error" } :
       /\ out = "ok" => rag.embedOutcome = "ok"
       /\ \E docs \in
             IF out = "ok"
             THEN UNION { match_documents(knowledge_base,
                            DefaultMatchThreshold, DefaultMatchCount,
                            rag.clientId, plan) :
                          plan \in { "seq", "ivfflat" } }
             ELSE { << >> } :
            rag' = [ rag EXCEPT
                       !.pc = "chat",
                       !.searchOutcome = out,
                       !.docsNull = (out = "error"),
                       !.docs = docs,
                       !.context = BuildContext(out = "error", docs),
                       !.messages =
                         BuildMessages(BuildContext(out = "error", docs),
                                       rag.history) ]
  /\ UNCHANGED << knowledge_base, matchCall, ingest, dbVars, tenantVars,
                  uiVars,
                  hookVars, chunkVars >>

\* What the call of /api/chat can come to: a body with message.content, an
\* ok body without it, a non-ok status, a rejected fetch or a body that is
\* not JSON.
ChatOutcomes == { "ok", "nocontent", "status", "throw" }

\* The chat completion is fetched and the response is sent.
RagChat ==
  /\ rag.pc = "chat"
  /\ \E out \in ChatOutcomes :
       rag' = [ rag EXCEPT
                  !.pc = "done",
                  !.chatOutcome = out,
                  !.response =
                    IF out \in { "status", "throw" } THEN CatchResponse
                    ELSE SuccessResponse(
                           IF out = "ok" THEN "answer" ELSE "apology",
                           rag.docsNull, rag.docs, rag.context) ]
  /\ UNCHANGED << knowledge_base, matchCall, ingest, dbVars, tenantVars,
                  uiVars,
                  hookVars, chunkVars >>

\* The requests posted to the function: a body that parses, with or
\* without message and clientId and with a conversation history, or a
\* body that is not JSON.
Requests ==
  { [ NoRequest EXCEPT !.pc = "start", !.parsed = TRUE, !.message = m,
                       !.clientId = c, !.history = h ] :
      m \in BOOLEAN, c \in Clients \cup { NULL }, h \in Histories }
  \cup { [ NoRequest EXCEPT !.pc = "start" ] }

InitRag ==
  /\ knowledge_base \in KbTables(MaxRagEntries)
  /\ matchCall = NoCall
  /\ rag \in Requests
  /\ ingest = NoIngest
  /\ roles = SeedRoles
  /\ user_roles = { << "u1", 1 >> }
  /\ nextRoleId = 4
  /\ AdminIdle
  /\ HookIdle
  /\ ChunkIdle
  /\ CompanyIdle

NextRag ==
  \/ RagValidate
  \/ RagEmbed
  \/ RagSearch
  \/ RagChat

SpecRag == InitRag /\ [][NextRag]_vars

\* -------------------------------------------------------- batch ingestion
\* Content lengths of the documents posted to embed-documents.
ContentLengths == { 0, 2 }

DocLists(lens) == UNION { [ 1..k -> lens ] : k \in 0..MaxDocs }

\* The requests posted to embed-documents: a body with a documents array
\* and with or without clientId, a body whose documents is missing or not
\* an array, or a body that is not JSON.
EdRequests ==
  { [ NoIngest EXCEPT !.pc = "start", !.handler = "embed-documents",
                      !.parsed = TRUE, !.isArray = TRUE, !.documents = d,
                      !.clientId = c ] :
      d \in DocLists(ContentLengths), c \in Clients \cup { NULL } }
  \cup { [ NoIngest EXCEPT !.pc = "start", !.handler = "embed-documents",
                          !.parsed = TRUE, !.clientId = c ] :
           c \in Clients \cup { NULL } }
  \cup { [ NoIngest EXCEPT !.pc = "start", !.handler = "embed-documents" ] }

\* The response of the catch block: {error, success: false}, status 500.
EdCatchResponse == [ kind |-> "error", status |-> 500, chunksProcessed |-> 0 ]

\* {success: true, chunksProcessed: n, ...} with the default status.
EdSuccessResponse(n) ==
  [ kind |-> "success", status |-> 200, chunksProcessed |-> n ]

\* await req.json() and the checks of documents and clientId.
EdValidate ==
  /\ ingest.handler = "embed-documents"
  /\ ingest.pc = "start"
  /\ ingest' =
       IF \/ ~ingest.parsed
          \/ ~ingest.isArray
          \/ Len(ingest.documents) = 0
          \/ ingest.clientId = NULL
       THEN [ ingest EXCEPT !.pc = "done", !.response = EdCatchResponse ]
       ELSE [ ingest EXCEPT !.pc = "doc", !.doc = 1 ]
  /\ UNCHANGED << knowledge_base, matchCall, rag, dbVars, tenantVars, uiVars,
                  hookVars,
                  chunkVars >>

\* for (const doc of documents): const chunks = chunkText(doc.content)
\* is called; the loop of chunkText runs as ChunkIterate, ChunkReturn and
\* ChunkExhaust.
EdChunkDoc ==
  /\ ingest.handler = "embed-documents"
  /\ ingest.pc = "doc"
  /\ ingest.doc <= Len(ingest.documents)
  /\ text' = [ i \in 1..ingest.documents[ingest.doc] |-> i ]
  /\ maxChunkSize' = DefaultMaxChunkSize
  /\ overlap' = DefaultOverlap
  /\ start' = 0
  /\ chunks' = << >>
  /\ pc' = "loop"
  /\ ingest' = [ ingest EXCEPT !.pc = "chunking" ]
  /\ UNCHANGED << knowledge_base, matchCall, rag, dbVars, tenantVars, uiVars,
                  hookVars >>

\* The embedding calls made for n chunks that come to outs: every chunk up
\* to the first call that throws.
CallsMade(d, n, outs) ==
  LET thrown == { i \in 1..n : outs[i] = "throw" }
      last == IF thrown = {} THEN n
              ELSE CHOOSE i \in thrown : \A j \in thrown : i <= j
  IN [ i \in 1..last |-> [ doc |-> d, chunk |-> i - 1, out |-> outs[i] ] ]

\* embeddedChunks.push(...) for the calls that gave an embedding array.
Pushed(calls, total) ==
  LET good == SelectSeq(calls, LAMBDA c : c.out = "ok")
  IN [ k \in 1..Len(good) |->
         [ doc |-> good[k].doc, chunkIndex |-> good[k].chunk,
           totalChunks |-> total ] ]

\* chunkText has returned: the embedding of each chunk is fetched. A non-ok
\* status and a body without an array skip the chunk (continue); a
\* rejected fetch or a body that is not JSON is not caught in the loop and
\* ends in the catch block.
EdEmbedChunks ==
  /\ ingest.handler = "embed-documents"
  /\ ingest.pc = "chunking"
  /\ pc = "done"
  /\ \E outs \in [ 1..Len(chunks) -> EmbedOutcomes ] :
       LET calls == CallsMade(ingest.doc, Len(chunks), outs)
           aborted == \E i \in 1..Len(calls) : calls[i].out = "throw"
       IN ingest' =
            [ ingest EXCEPT
                !.outcomes = @ \o calls,
                !.embeddedChunks = @ \o Pushed(calls, Len(chunks)),
                !.pc = IF aborted THEN "done" ELSE "doc",
                !.doc = IF aborted THEN @ ELSE @ + 1,
                !.response = IF aborted THEN EdCatchResponse ELSE @ ]
  /\ UNCHANGED << knowledge_base, matchCall, rag, dbVars, tenantVars, uiVars,
                  hookVars,
                  chunkVars >>

\* The rows an insert of the embedded chunks adds, each at some distance
\* from the query of the behaviour.
InsertedRows(emb, c, ds) ==
  [ i \in 1..Len(emb) |-> [ client_id |-> c, dist |-> ds[i] ] ]

\* After the last document: no embedded chunk throws, otherwise the single
\* insert of all embedded chunks succeeds or fails as a whole.
EdStore ==
  /\ ingest.handler = "embed-documents"
  /\ ingest.pc = "doc"
  /\ ingest.doc > Len(ingest.documents)
  /\ IF ingest.embeddedChunks = << >>
     THEN /\ ingest' = [ ingest EXCEPT !.pc = "done",
                                        !.response = EdCatchResponse ]
          /\ UNCHANGED knowledge_base
     ELSE \E ok \in BOOLEAN,
             ds \in [ 1..Len(ingest.embeddedChunks) -> Dists ] :
            IF ok
            THEN /\ knowledge_base' =
                      knowledge_base \o
                        InsertedRows(ingest.embeddedChunks, ingest.clientId,
                                     ds)
                 /\ ingest' =
                      [ ingest EXCEPT
                          !.pc = "done",
                          !.insert = "ok",
                          !.response =
                            EdSuccessResponse(Len(ingest.embeddedChunks)) ]
            ELSE /\ ingest' = [ ingest EXCEPT !.pc = "done",
                                               !.insert = "error",
                                               !.response = EdCatchResponse ]
                 /\ UNCHANGED knowledge_base
  /\ UNCHANGED << matchCall, rag, dbVars, tenantVars, uiVars, hookVars,
                  chunkVars >>

\* handleSyncVulnerabilities: the vulnerabilities of the assets of the
\* selected client, one document each (none when the assets select fails
\* or finds nothing).
SyncRequests ==
  { [ NoIngest EXCEPT !.pc = "start", !.handler = "sync", !.parsed = TRUE,
                      !.isArray = TRUE, !.documents = d, !.clientId = c ] :
      d \in DocLists({ 1 }), c \in Clients \cup { NULL } }

\* toast.error(...)
SyncErrorToast == [ kind |-> "error", status |-> 0, chunksProcessed |-> 0 ]

\* toast.success(`Successfully synced ${n} vulnerabilities ...`)
SyncSuccessToast(n) ==
  [ kind |-> "success", status |-> 0, chunksProcessed |-> n ]

\* No client selected, or nothing to sync: an error toast and return.
SyncStart ==
  /\ ingest.handler = "sync"
  /\ ingest.pc = "start"
  /\ ingest' =
       IF ingest.clientId = NULL \/ Len(ingest.documents) = 0
       THEN [ ingest EXCEPT !.pc = "done", !.response = SyncErrorToast ]
       ELSE [ ingest EXCEPT !.pc = "embed", !.doc = 1 ]
  /\ UNCHANGED << knowledge_base, matchCall, rag, dbVars, tenantVars, uiVars,
                  hookVars,
                  chunkVars >>

\* One turn of for (const doc of documentsToEmbed): the embedding is
\* fetched inside try/catch; every failure continues with the next one.
SyncEmbed ==
  /\ ingest.handler = "sync"
  /\ ingest.pc = "embed"
  /\ ingest.doc <= Len(ingest.documents)
  /\ \E out \in EmbedOutcomes :
       LET call == << [ doc |-> ingest.doc, chunk |-> 0, out |-> out ] >>
       IN ingest' = [ ingest EXCEPT
                       !.outcomes = @ \o call,
                       !.embeddedChunks = @ \o Pushed(call, 1),
                       !.doc = @ + 1 ]
  /\ UNCHANGED << knowledge_base, matchCall, rag, dbVars, tenantVars, uiVars,
                  hookVars,
                  chunkVars >>

\* After the last document: no embedding throws (error toast), otherwise
\* the single insert succeeds (success toast) or fails (error toast).
SyncStore ==
  /\ ingest.handler = "sync"
  /\ ingest.pc = "embed"
  /\ ingest.doc > Len(ingest.documents)
  /\ IF ingest.embeddedChunks = << >>
     THEN /\ ingest' = [ ingest EXCEPT !.pc = "done",
                                        !.response = SyncErrorToast ]
          /\ UNCHANGED knowledge_base
     ELSE \E ok \in BOOLEAN,
             ds \in [ 1..Len(ingest.embeddedChunks) -> Dists ] :
            IF ok
            THEN /\ knowledge_base' =
                      knowledge_base \o
                        InsertedRows(ingest.embeddedChunks, ingest.clientId,
                                     ds)
                 /\ ingest' =
                      [ ingest EXCEPT
                          !.pc = "done",
                          !.insert = "ok",
                          !.response =
                            SyncSuccessToast(Len(ingest.embeddedChunks)) ]
            ELSE /\ ingest' = [ ingest EXCEPT !.pc = "done",
                                               !.insert = "error",
                                               !.response = SyncErrorToast ]
                 /\ UNCHANGED knowledge_base
  /\ UNCHANGED << matchCall, rag, dbVars, tenantVars, uiVars, hookVars,
                  chunkVars >>

InitIngest ==
  /\ knowledge_base \in KbTables(1)
  /\ matchCall = NoCall
  /\ rag = NoRequest
  /\ ingest \in EdRequests \cup SyncRequests
  /\ roles = SeedRoles
  /\ user_roles = { << "u1", 1 >> }
  /\ nextRoleId = 4
  /\ AdminIdle
  /\ HookIdle
  /\ ChunkIdle
  /\ CompanyIdle

NextIngest ==
  \/ EdValidate
  \/ EdChunkDoc
  \/ ChunkIterate
  \/ ChunkReturn
  \/ ChunkExhaust
  \/ EdEmbedChunks
  \/ EdStore
  \/ SyncStart
  \/ SyncEmbed
  \/ SyncStore

SpecIngest == InitIngest /\ [][NextIngest]_vars

\* The knowledge functions together: a batch ingestion or a chat request.
SpecKnowledge ==
  (InitIngest \/ InitRag) /\ [][NextIngest \/ NextRag]_vars

\* ------------------------------------------------------- TenantManagement
\* clients?.map(client => ({id, name, email, created_at, settings})) || []
TenantRows(cl) == [ c \in DOMAIN cl |-> [ name |-> cl[c].name ] ]

\* fetchTenants(): the select is answered with the rows the policy lets the
\* user see when the request is issued; the response is delivered later.
FetchTenantsSnapshot(cl) == TenantRows(VisibleClients(cl))

\* Delivery of a fetchTenants response: setTenants(tenantsData) or, on
\* error, a toast and no change of the list.
FetchTenantsDone ==
  /\ tview = "list"
  /\ \E snap \in tenantFetches, ok \in BOOLEAN :
       /\ tenantFetches' = tenantFetches \ { snap }
       /\ IF ok THEN tenants' = snap /\ toast' = toast
                ELSE tenants' = tenants /\ toast' = "error"
  /\ UNCHANGED << clients, profiles, nextClientId, tview, selectedTenant,
                  dbVars, actor, tab, tabLoading, rmRoles, rmFetches, umRoles, umUsers,
                  editingUser, umFetches, nOps, hookVars, chunkVars,
                  kbVars >>

\* CreateTenantDialog.onSubmit: refused without userProfile.company_id;
\* after the insert handleTenantCreated bumps refreshKey, which replaces
\* the TenantTable by a new one that fetches, and selects the list tab.
CreateTenant ==
  /\ tview \in { "list", "edit" }
  /\ nOps < MaxOps
  /\ nextClientId <= MaxClientId
  /\ \E name \in TenantNames, net \in BOOLEAN :
       LET company == get_user_company_id(profiles, actor)
       IN IF company # NULL /\ net /\ InsertClientOk(company)
          THEN /\ clients' = InsertClient(name, company)
               /\ nextClientId' = nextClientId + 1
               /\ toast' = "success"
               /\ tview' = "list"
               /\ tenants' = EmptyList
               /\ tenantFetches' = { FetchTenantsSnapshot(clients') }
          ELSE /\ toast' = "error"
               /\ UNCHANGED << clients, nextClientId, tview, tenants,
                               tenantFetches >>
  /\ nOps' = nOps + 1
  /\ UNCHANGED << profiles, selectedTenant, dbVars, actor, tab, tabLoading,
                  rmRoles,
                  rmFetches, umRoles, umUsers, editingUser, umFetches,
                  hookVars, chunkVars, kbVars >>

\* handleEditTenant from the edit button of a listed tenant: the edit tab
\* is selected and the content of the list tab is unmounted. The table is
\* rendered only while loading is false: fetchTenants sets it to true
\* when it starts and to false when it ends.
EditTenant ==
  /\ tview = "list"
  /\ tenantFetches = {}
  /\ \E c \in DOMAIN tenants :
       selectedTenant' = [ id |-> c, name |-> tenants[c].name ]
  /\ tview' = "edit"
  /\ tenants' = EmptyList
  /\ tenantFetches' = {}
  /\ UNCHANGED << clients, profiles, nextClientId, dbVars, uiVars, hookVars,
                  chunkVars, kbVars >>

\* handleBackToList (cancel), or the list tab clicked: the TenantTable
\* mounts again and fetches.
BackToList ==
  /\ tview = "edit"
  /\ tview' = "list"
  /\ \E cancel \in BOOLEAN :
       selectedTenant' = IF cancel THEN NoTenant ELSE selectedTenant
  /\ tenants' = EmptyList
  /\ tenantFetches' = { FetchTenantsSnapshot(clients) }
  /\ UNCHANGED << clients, profiles, nextClientId, dbVars, uiVars, hookVars,
                  chunkVars, kbVars >>

\* TenantForm.onSubmit for the selected tenant; onSaved is
\* handleBackToList.
UpdateTenant ==
  /\ tview = "edit"
  /\ selectedTenant # NoTenant
  /\ nOps < MaxOps
  /\ \E name \in TenantNames \cup { selectedTenant.name }, net \in BOOLEAN :
       IF net
       THEN /\ clients' = UpdateClientRows(selectedTenant.id, name)
            /\ toast' = "success"
            /\ tview' = "list"
            /\ selectedTenant' = NoTenant
            /\ tenants' = EmptyList
            /\ tenantFetches' = { FetchTenantsSnapshot(clients') }
       ELSE /\ toast' = "error"
            /\ UNCHANGED << clients, tview, selectedTenant, tenants,
                            tenantFetches >>
  /\ nOps' = nOps + 1
  /\ UNCHANGED << profiles, nextClientId, dbVars, actor, tab, tabLoading,
                  rmRoles,
                  rmFetches, umRoles, umUsers, editingUser, umFetches,
                  hookVars, chunkVars, kbVars >>

\* deleteTenant(tenantId) from the confirmed dialog of a listed tenant,
\* in the table that is rendered while no fetchTenants is running.
DeleteTenant ==
  /\ tview = "list"
  /\ tenantFetches = {}
  /\ nOps < MaxOps
  /\ \E c \in DOMAIN tenants, net \in BOOLEAN :
       IF net /\ DeleteClientOk(c)
       THEN /\ clients' = DeleteClientRows(c)
            /\ toast' = "success"
            /\ tenantFetches' =
                 tenantFetches \cup { FetchTenantsSnapshot(clients') }
       ELSE /\ toast' = "error"
            /\ UNCHANGED << clients, tenantFetches >>
  /\ nOps' = nOps + 1
  /\ UNCHANGED << profiles, nextClientId, tview, tenants, selectedTenant,
                  dbVars, actor, tab, tabLoading, rmRoles, rmFetches, umRoles, umUsers,
                  editingUser, umFetches, hookVars, chunkVars, kbVars >>

\* The clients table after the migration that added company_id: c1 is a
\* row of company co1 or a row that was there before the column (NULL,
\* the column has no default and is not backfilled), c2 a row of co1 or
\* co2.
TenantTables ==
  { [ c \in { "c1", "c2" } |->
        [ company_id |-> IF c = "c1" THEN k1 ELSE k2,
          name |-> IF c = "c1" THEN "acme" ELSE "apex" ] ] :
      k1 \in { "co1", NULL }, k2 \in { "co1", "co2" } }

\* The profile of the admin u1 as an operator set it, or as the defaults
\* left it; u2 is a default profile, linked to client c1 or to none.
TenantProfiles ==
  { [ u \in Users |->
        IF u = "u1"
        THEN [ company_id |-> k, role |-> r, client_id |-> NULL ]
        ELSE [ company_id |-> NULL, role |-> "client_user",
               client_id |-> cid ] ] :
      k \in { "co1", NULL }, r \in { "super_admin", "client_user" },
      cid \in { "c1", NULL } }

\* u1, who holds the role named 'Super Admin', has opened /admin/tenants:
\* the gate of the page has rendered its content and the TenantTable has
\* issued its first fetch.
InitTenant ==
  /\ roles = SeedRoles
  /\ user_roles = { << "u1", 1 >> }
  /\ nextRoleId = 4
  /\ actor = "u1" /\ tab = "none" /\ tabLoading = TRUE
  /\ rmRoles = EmptyList
  /\ rmFetches = {} /\ umRoles = EmptyList /\ umUsers = EmptyList
  /\ editingUser = NoEdit /\ umFetches = {} /\ toast = "none" /\ nOps = 0
  /\ user = "u1"
  /\ permissions = get_user_permissions(roles, user_roles, "u1")
  /\ userProfile = "u1"
  /\ loading = FALSE
  /\ rbacFetches = {}
  /\ page = "tenants"
  /\ screen = Gate(page, loading, permissions)
  /\ lastFetch = NoFetch
  /\ ChunkIdle
  /\ KbIdle
  /\ clients \in TenantTables
  /\ profiles \in TenantProfiles
  /\ nextClientId = 3
  /\ tview = "list"
  /\ tenants = EmptyList
  /\ tenantFetches = { FetchTenantsSnapshot(clients) }
  /\ selectedTenant = NoTenant

NextTenant ==
  \/ FetchTenantsDone
  \/ CreateTenant
  \/ EditTenant
  \/ BackToList
  \/ UpdateTenant
  \/ DeleteTenant

SpecTenant == InitTenant /\ [][NextTenant]_vars

\* The admin console: the Admin page and the TenantManagement page.
NextConsole ==
  \/ NextAdmin
  \/ NextTenant

SpecConsole == (InitAdmin \/ InitTenant) /\ [][NextConsole]_vars

\* ------------------------------------------------- handleClearKnowledge
\* Policy "SOC admins can manage knowledge base in their company" (FOR ALL).
KbManage(row) ==
  /\ user_is_soc_admin_or_higher(profiles, actor)
  /\ \/ row.client_id = NULL
     \/ \E c \in DOMAIN clients :
          /\ c = row.client_id
          /\ SqlEq(clients[c].company_id,
                   get_user_company_id(profiles, actor))

\* DELETE FROM knowledge_base WHERE client_id = c as the signed-in user:
\* the rows the policy hides stay.
DeleteKnowledgeRows(kb, c) ==
  SelectSeq(kb, LAMBDA row : ~(row.client_id = c /\ KbManage(row)))

\* The Clear button of the KnowledgeManager, with the clientId prop of the
\* component.
ClearRequests ==
  { [ NoIngest EXCEPT !.pc = "start", !.handler = "clear", !.clientId = c ] :
      c \in Clients \cup { NULL } }

\* handleClearKnowledge: no client -> error toast; confirm() declined ->
\* return; delete error -> error toast; else setUploadedCount(0) and the
\* success toast.
ClearKnowledge ==
  /\ ingest.handler = "clear"
  /\ ingest.pc = "start"
  /\ \E confirmed \in BOOLEAN, net \in BOOLEAN :
       IF ingest.clientId = NULL
       THEN /\ ingest' = [ ingest EXCEPT !.pc = "done",
                                         !.response = SyncErrorToast ]
            /\ UNCHANGED knowledge_base
       ELSE IF ~confirmed
       THEN /\ ingest' = [ ingest EXCEPT !.pc = "done" ]
            /\ UNCHANGED knowledge_base
       ELSE IF net
       THEN /\ knowledge_base' =
                 DeleteKnowledgeRows(knowledge_base, ingest.clientId)
            /\ ingest' = [ ingest EXCEPT !.pc = "done",
                                         !.response = SyncSuccessToast(0) ]
       ELSE /\ ingest' = [ ingest EXCEPT !.pc = "done",
                                         !.response = SyncErrorToast ]
            /\ UNCHANGED knowledge_base
  /\ UNCHANGED << matchCall, rag, dbVars, tenantVars, uiVars, hookVars,
                  chunkVars >>

\* Who presses the button: any signed-in user, with any role of the enum,
\* of company co1, co2 or of none.
ClearProfiles ==
  { [ u \in Users |->
        IF u = "u1"
        THEN [ company_id |-> k, role |-> r, client_id |-> NULL ]
        ELSE DefaultProfile ] :
      k \in Companies \cup { NULL }, r \in AppRoles }

InitClear ==
  /\ knowledge_base \in KbTables(MaxRagEntries)
  /\ matchCall = NoCall
  /\ rag = NoRequest
  /\ ingest \in ClearRequests
  /\ roles = SeedRoles
  /\ user_roles = { << "u1", 1 >> }
  /\ nextRoleId = 4
  /\ AdminIdle
  /\ HookIdle
  /\ ChunkIdle
  /\ clients = SeedClients
  /\ profiles \in ClearProfiles
  /\ TenantPageIdle

NextClear == ClearKnowledge

SpecClear == InitClear /\ [][NextClear]_vars

\* ------------------------------------------------------------ C1, C6, C7
AssignedRoles(urs, u) == { ur[2] : ur \in { x \in urs : x[1] = u } }

UnionPerms(rs, R) == UNION { Range(rs[r].permissions) : r \in R }

NoDup(s) == \A i, j \in 1..Len(s) : i # j => s[i] # s[j]

\* C1 (state part): for every user, get_user_permissions is a
\* duplicate-free array whose elements are exactly the union of the
\* permission sets of the roles assigned through user_roles, and it is the
\* empty array for a user without assignment.
C1_Union ==
  /\ \A ur \in user_roles : ur[2] \in DOMAIN roles
  /\ \A u \in Users :
       LET a == get_user_permissions(roles, user_roles, u)
           R == AssignedRoles(user_roles, u)
       IN /\ NoDup(a)
          /\ Range(a) = UnionPerms(roles, R)
          /\ (R = {} => a = << >>)

\* C1 (step part): a step that removes one assignment (u, r) takes away
\* exactly the permissions of r that no role still assigned to u grants.
C1_RemoveStep ==
  \A u \in Users, r \in DOMAIN roles :
    ( /\ << u, r >> \in user_roles
      /\ user_roles' = user_roles \ { << u, r >> }
      /\ roles' = roles )
    => Range(get_user_permissions(roles', user_roles', u)) =
         Range(get_user_permissions(roles, user_roles, u)) \
           ( Range(roles[r].permissions) \
             UnionPerms(roles, AssignedRoles(user_roles, u) \ { r }) )

\* C1: after any sequence of assignRole, removeRole and role create, update
\* and delete operations, get_user_permissions(u) is the duplicate-free
\* union of the permissions of exactly the roles assigned to u, empty
\* without assignment, and removing an assignment removes exactly the
\* permissions no other assigned role grants.
C1_PermissionsAreUnion == [](C1_Union) /\ [][C1_RemoveStep]_vars

\* C1 witness: the edited user lost one of the listed roles through
\* removeRole and keeps another role that shares a permission with it.
C1_Witness ==
  /\ tab = "users"
  /\ editingUser # NoEdit
  /\ \E r \in editingUser.roles :
       /\ r \in DOMAIN roles
       /\ << editingUser.user_id, r >> \notin user_roles
       /\ Range(roles[r].permissions) \cap
            Range(get_user_permissions(roles, user_roles,
                                       editingUser.user_id)) # {}

\* C6: a delete of a role stored under one of the three seed names is
\* rejected: no step removes such a role from the roles table.
C6_SeedDeleteRejected ==
  [][ \A r \in DOMAIN roles :
        roles[r].name \in SeedNames => r \in DOMAIN roles' ]_vars

\* C7: in every reachable state the three seed roles "Super Admin",
\* "SOC Admin" and "Client User" exist in the roles table.
C7_SeedRolesExist == SeedNames \subseteq RoleNamesIn(roles)

\* ------------------------------------------------------------------ C2-C5
AdminPerms == { "manage_users", "manage_roles" }

\* The permission set authorizes the page: Admin needs manage_users or
\* manage_roles, TenantManagement needs both.
Authorized(pg, perms) ==
  IF pg = "admin" THEN AdminPerms \cap Range(perms) # {}
  ELSE AdminPerms \subseteq Range(perms)

\* C2: an opened gated page shows the placeholder while loading, and once
\* loading is false shows the protected content if the permission set
\* authorizes it and redirects otherwise; content is never shown with a
\* permission set that does not authorize it.
C2_GateStates ==
  page \in { "admin", "tenants" } =>
    /\ screen \in { "placeholder", "content", "redirect" }
    /\ (loading => screen = "placeholder")
    /\ (~loading =>
         screen = IF Authorized(page, permissions) THEN "content"
                  ELSE "redirect")
    /\ (screen = "content" => Authorized(page, permissions))

\* C2 witness: the Admin page shows its content to a user who holds
\* manage_users but not manage_roles.
C2_Witness ==
  /\ page = "admin" /\ screen = "content" /\ ~loading
  /\ "manage_roles" \notin Range(permissions)

FailedOutcomes == { "error", "null", "throw" }

NoneTrue(perms) ==
  /\ \A p \in Permission : ~hasPermission(perms, p)
  /\ ~hasAnyPermission(perms, PermOrder)
  /\ ~isSuperAdmin(perms)

\* What a failed run must leave behind.
Closed ==
  /\ permissions = << >>
  /\ loading = FALSE
  /\ NoneTrue(permissions)

ProfileFailed == lastFetch.profile \in FailedOutcomes

ProfileThrew == lastFetch.profile = "throw"

PermsFailed == lastFetch.perms \in FailedOutcomes

\* C3 as claimed: when the profile fetch or the permission fetch of a run
\* of fetchUserProfileAndPermissions failed (error result, null data or
\* exception), the run ends with permissions empty and loading false, no
\* fetch is started, and hasPermission, hasAnyPermission and isSuperAdmin
\* are false.
C3_Original ==
  /\ []((ProfileFailed \/ PermsFailed) => Closed)
  /\ [][(ProfileFailed' \/ PermsFailed')
        => rbacFetches' \subseteq rbacFetches]_vars

\* C3 as amended: the same when the permission fetch failed (error result,
\* null data or exception) or the profile fetch threw; a profile select
\* that returns an error result or null data does not empty the
\* permissions.
C3_FailClosed ==
  /\ []((ProfileThrew \/ PermsFailed) => Closed)
  /\ [][(ProfileThrew' \/ PermsFailed')
        => rbacFetches' \subseteq rbacFetches]_vars

\* C3 witness: the permission fetch of the super admin failed and the
\* Admin page redirected.
C3_Witness ==
  /\ lastFetch.perms \in FailedOutcomes
  /\ user = "u1" /\ page = "admin" /\ screen = "redirect"

\* C4: isSuperAdmin is true exactly when manage_users and manage_roles
\* are both in the aggregated permission set, for the permissions held by
\* the hook and for the aggregate of every user.
C4_SuperAdminIff ==
  /\ isSuperAdmin(permissions) <=> AdminPerms \subseteq Range(permissions)
  /\ \A u \in Users :
       LET a == get_user_permissions(roles, user_roles, u)
       IN isSuperAdmin(a) <=> AdminPerms \subseteq Range(a)

\* C4 witness: the hook holds manage_users without manage_roles.
C4_Witness ==
  /\ ~loading
  /\ "manage_users" \in Range(permissions)
  /\ "manage_roles" \notin Range(permissions)
  /\ ~isSuperAdmin(permissions)

\* Lists passed as requiredPermissions: up to two permissions.
RequiredLists ==
  { << >> } \cup { << p >> : p \in Permission }
            \cup { << p, q >> : p \in Permission, q \in Permission }

\* C5: hasPermission(p) is true exactly when p is in the aggregated set
\* and hasAnyPermission(L) exactly when L and the set intersect, so it is
\* false for the empty list.
C5_HasPermission ==
  /\ \A p \in Permission :
       hasPermission(permissions, p) <=> p \in Range(permissions)
  /\ \A L \in RequiredLists :
       hasAnyPermission(permissions, L) <=>
         Range(L) \cap Range(permissions) # {}
  /\ ~hasAnyPermission(permissions, << >>)

\* C5 witness: the hook holds the permissions of the role "Client User",
\* which a list can meet in part.
C5_Witness ==
  /\ ~loading
  /\ Range(permissions) = { "view_logs", "view_assets", "view_reports" }
  /\ hasAnyPermission(permissions, << "manage_users", "view_logs" >>)

\* ----------------------------------------------------------------- C8-C10
\* C8: with 0 <= overlap < maxChunkSize, the defaults 1000 and 100
\* included, chunkText reaches the end of its loop and returns.
C8_Terminates == <>(overlap >= maxChunkSize \/ pc = "done")

\* The windows pushed so far cover every position of the text.
Covered ==
  \A i \in 1..Len(text) :
    \E k \in 1..Len(chunks) : i \in Range(chunks[k])

\* C9: with overlap >= maxChunkSize every iteration moves start forward,
\* the call returns, and the chunks returned cover the whole text.
C9_ProgressAndCover ==
  /\ [][ (overlap >= maxChunkSize /\ Len(chunks') > Len(chunks))
          => start' > start ]_vars
  /\ <>(overlap < maxChunkSize \/ pc = "done")
  /\ [](overlap >= maxChunkSize /\ pc = "done" => Covered)

\* C10: for a text no longer than maxChunkSize exactly one chunk is
\* pushed and returned, and it is the whole text (stated for the texts
\* that have a character; the empty text is the case of C13).
C10_SingleChunk ==
  (Len(text) <= maxChunkSize /\ text # << >>) =>
    /\ Len(chunks) <= 1
    /\ (pc = "done" => chunks = << text >>)

\* ---------------------------------------------------------- C11, C12, C13
\* C11: chunking a 2500-character document with maxChunkSize 1000 and
\* overlap 100 produces exactly the three chunks of lengths 1000, 1000 and
\* 600 that start at the offsets 0, 900 and 1800.
C11_ThreeChunks ==
  (Len(text) = 2500 /\ maxChunkSize = 1000 /\ overlap = 100) =>
    /\ pc # "exhausted"
    /\ Len(chunks) <= 3
    /\ \A k \in 1..Len(chunks) :
         /\ chunks[k][1] = << 0, 900, 1800 >>[k] + 1
         /\ Len(chunks[k]) = << 1000, 1000, 600 >>[k]
    /\ (pc = "done" => Len(chunks) = 3)

\* The last n characters of a are the first n characters of b.
OverlapsBy(a, b, n) ==
  /\ Len(a) >= n
  /\ Len(b) >= n
  /\ SubSeq(a, Len(a) - n + 1, Len(a)) = SubSeq(b, 1, n)

\* C12: with maxChunkSize 1000 and overlap 100, the last 100 characters of
\* every chunk are the first 100 characters of the chunk after it, except
\* possibly for the pair that ends in the final chunk.
C12_ConsecutiveOverlap ==
  (maxChunkSize = 1000 /\ overlap = 100) =>
    \A i \in 1..(Len(chunks) - 2) :
      OverlapsBy(chunks[i], chunks[i + 1], 100)

\* C13: chunkText("", 1000, 100) pushes no chunk and returns the empty
\* sequence.
C13_EmptyText ==
  (text = << >> /\ maxChunkSize = 1000 /\ overlap = 100) =>
    /\ chunks = << >>
    /\ pc \in { "loop", "done" }

\* C13 witness: chunkText("") called with the defaults has returned.
C13_Witness ==
  /\ text = << >>
  /\ maxChunkSize = 1000
  /\ overlap = 100
  /\ pc = "done"
  /\ chunks = << >>

\* ---------------------------------------------------------- C14, C15, C16
ResultIds == { matchCall.result[i].id : i \in 1..Len(matchCall.result) }

\* C14: a similarity search never returns a row whose similarity is at or
\* below the threshold, never more than topK rows, and with a clientId
\* given never a row of another client.
C14_SearchFilters ==
  matchCall.called =>
    /\ Len(matchCall.result) <= matchCall.count
    /\ \A i \in 1..Len(matchCall.result) :
         /\ matchCall.result[i].similarity > matchCall.threshold
         /\ matchCall.filter # NULL =>
              matchCall.result[i].client_id = matchCall.filter

\* C14 witness: a sequentially scanned search for client c1 with topK 1
\* returned one row while the table holds a second row of c1 above the
\* threshold and a row of c2 above it.
C14_Witness ==
  /\ matchCall.called
  /\ matchCall.plan = "seq"
  /\ matchCall.filter = "c1"
  /\ matchCall.count = 1
  /\ Len(matchCall.result) = 1
  /\ \E b, c \in DOMAIN knowledge_base :
       /\ b \notin ResultIds /\ c \notin ResultIds
       /\ knowledge_base[b].client_id = "c1"
       /\ Similarity(knowledge_base[b].dist) > matchCall.threshold
       /\ knowledge_base[c].client_id = "c2"
       /\ Similarity(knowledge_base[c].dist) > matchCall.threshold

\* The ids of the rows that pass the WHERE clause of the last search.
Qualifying ==
  { id \in DOMAIN knowledge_base :
      /\ Similarity(knowledge_base[id].dist) > matchCall.threshold
      /\ matchCall.filter # NULL =>
           knowledge_base[id].client_id = matchCall.filter }

\* C15: the result is ordered by descending similarity and is exactly the
\* topK most similar rows among those that pass the threshold and the
\* client filter: no such row left out is more similar than a returned one.
C15_TopK ==
  matchCall.called =>
    /\ \A i, j \in 1..Len(matchCall.result) :
         i < j =>
           matchCall.result[i].similarity >= matchCall.result[j].similarity
    /\ Len(matchCall.result) = Min(matchCall.count, Cardinality(Qualifying))
    /\ \A id \in Qualifying \ ResultIds :
         \A i \in 1..Len(matchCall.result) :
           Similarity(knowledge_base[id].dist) <=
             matchCall.result[i].similarity

IsErrorResponse(r) ==
  r.status >= 300 /\ r.error /\ r.response = "fallback"

IsSuccessResponse(r) ==
  r.status = 200 /\ ~r.error /\ r.response \in { "answer", "apology" }

RequestInvalid == ~rag.parsed \/ ~rag.message \/ rag.clientId = NULL

EmbedFailed == rag.embedOutcome \in { "status", "throw" }

SearchFailed == rag.searchOutcome = "error"

ChatFailed == rag.chatOutcome \in { "status", "throw" }

\* C17 as claimed: a request without message or clientId and a failure of
\* the embedding call, of the similarity search or of the chat call all
\* end in the error response {error, response: fallback} with a non-2xx
\* status, never in a successful response.
C17_Original ==
  (rag.pc = "done" /\ (RequestInvalid \/ EmbedFailed \/ SearchFailed
                          \/ ChatFailed)) =>
    IsErrorResponse(rag.response)

\* C17 as amended: every request ends in a response; it is the error
\* response (status 500) exactly when message or clientId is missing or
\* the embedding call or the chat call failed, and the successful one
\* otherwise; a failed similarity search alone leaves the response
\* successful, with documentsFound 0 and hasContext false.
C17_ErrorBoundary ==
  rag.pc = "done" =>
    /\ IsErrorResponse(rag.response) \/ IsSuccessResponse(rag.response)
    /\ IsErrorResponse(rag.response) <=>
         (RequestInvalid \/ EmbedFailed \/ ChatFailed)
    /\ (SearchFailed /\ ~ChatFailed) =>
         /\ IsSuccessResponse(rag.response)
         /\ rag.response.documentsFound = 0
         /\ ~rag.response.hasContext

\* C17 witness: the similarity search failed, then the chat call failed,
\* and the error response was sent.
C17_Witness ==
  /\ rag.pc = "done"
  /\ SearchFailed
  /\ ChatFailed
  /\ IsErrorResponse(rag.response)

\* C18: the message list sent to the chat endpoint is the system prompt,
\* then the last min(10, |h|) items of the history h in their order, then
\* the user message: between 2 and 12 entries, the user message last.
C18_MessageList ==
  rag.pc \in { "chat", "done" } /\ rag.searchOutcome # "none" =>
    LET h == rag.history
        k == Min(10, Len(h))
        m == rag.messages
    IN /\ Len(m) = k + 2
       /\ Len(m) >= 2 /\ Len(m) <= 12
       /\ m[1].role = "system"
       /\ \A i \in 1..k : m[1 + i] = h[Len(h) - k + i]
       /\ m[Len(m)] = [ role |-> "user", content |-> "message" ]

\* C18 witness: a history of 12 items was cut to its last 10.
C18_Witness ==
  /\ rag.pc = "chat"
  /\ Len(rag.history) = 12
  /\ Len(rag.messages) = 12
  /\ rag.messages[2] = rag.history[3]

\* C19: when the search returns no row, the context block is left out,
\* the system prompt is the no-context variant, the chat endpoint is still
\* called and the response carries documentsFound 0 and hasContext false;
\* in every successful response hasContext holds iff documentsFound > 0.
C19_NoContext ==
  /\ (rag.searchOutcome = "ok" /\ rag.docs = << >>) =>
       /\ rag.context = << >>
       /\ rag.messages[1].content = "answer based on your general knowledge"
       /\ rag.pc \in { "chat", "done" }
       /\ rag.pc = "done" =>
            /\ rag.chatOutcome # "none"
            /\ ~ChatFailed =>
                 /\ IsSuccessResponse(rag.response)
                 /\ rag.response.documentsFound = 0
                 /\ ~rag.response.hasContext
  /\ (rag.pc = "done" /\ IsSuccessResponse(rag.response)) =>
       (rag.response.hasContext <=> rag.response.documentsFound > 0)

\* C19 witness: the table holds rows, none came back for the request, and
\* the successful response reports no context.
C19_Witness ==
  /\ rag.pc = "done"
  /\ knowledge_base # << >>
  /\ rag.searchOutcome = "ok"
  /\ rag.docs = << >>
  /\ IsSuccessResponse(rag.response)
  /\ rag.response.documentsFound = 0

EmbeddingFailed(out) == out \in { "throw", "status", "invalid" }

\* The positions of the embedding calls that gave an embedding array.
OkCalls == { i \in 1..Len(ingest.outcomes) : ingest.outcomes[i].out = "ok" }

\* C20: a failed embedding call (endpoint unreachable, non-success status,
\* body without a numeric array) is skipped in a batch: in embed-documents
\* and in the vulnerability sync no failure ends the batch, every item is
\* still attempted and exactly the items whose call succeeded are kept; in
\* the RAG chat the same failure is fatal and gives the error response.
C20_SkipOrFatal ==
  /\ (ingest.handler = "sync" /\ ingest.pc \in { "embed", "done" }
        /\ ingest.doc > 0) =>
       /\ Len(ingest.outcomes) = ingest.doc - 1
       /\ Len(ingest.embeddedChunks) = Cardinality(OkCalls)
       /\ ingest.pc = "done" =>
            Len(ingest.outcomes) = Len(ingest.documents)
  /\ (ingest.handler = "embed-documents" /\ ingest.doc > 0) =>
       /\ Len(ingest.embeddedChunks) = Cardinality(OkCalls)
       /\ \A i \in 1..Len(ingest.outcomes) :
            ingest.outcomes[i].out = "throw" => ingest.pc # "done"
       /\ ingest.pc = "done" => ingest.doc > Len(ingest.documents)
  /\ (rag.pc = "done" /\ EmbeddingFailed(rag.embedOutcome)) =>
       IsErrorResponse(rag.response)

\* ------------------------------------------------------------- C21, C29
\* C21: a batch ingestion ends in one of two ways: it succeeds when at
\* least one item was embedded (and the store took the insert), with
\* chunksProcessed >= 1, and it reports a terminal failure (for
\* embed-documents {error, success: false} with a non-2xx status) when
\* none was.
C21_BatchOutcome ==
  /\ ingest.handler = "embed-documents" => pc # "exhausted"
  /\ (ingest.pc = "done" /\ ingest.insert # "error") =>
       /\ Len(ingest.embeddedChunks) >= 1 =>
            /\ ingest.response.kind = "success"
            /\ ingest.response.chunksProcessed >= 1
            /\ ingest.handler = "embed-documents" =>
                 ingest.response.status = 200
       /\ Len(ingest.embeddedChunks) = 0 =>
            /\ ingest.response.kind = "error"
            /\ ingest.handler = "embed-documents" =>
                 ingest.response.status >= 300

\* The entries of the embedded chunks come in document-then-chunk order.
InRequestOrder(emb) ==
  \A i, j \in 1..Len(emb) :
    i < j =>
      \/ emb[i].doc < emb[j].doc
      \/ emb[i].doc = emb[j].doc /\ emb[i].chunkIndex < emb[j].chunkIndex

C25_UniqueAssignment ==
  [][ /\ AssignRole =>
           \/ toast' = "error" /\ user_roles' = user_roles
           \/ /\ toast' = "success"
              /\ Cardinality(user_roles') = Cardinality(user_roles) + 1
              /\ \E r \in Assignable :
                   /\ << editingUser.user_id, r >> \notin user_roles
                   /\ user_roles' =
                        user_roles \cup { << editingUser.user_id, r >> }
      /\ RemoveRole =>
           \E r \in editingUser.roles :
             /\ user_roles \ { << editingUser.user_id, r >> }
                  \subseteq user_roles'
             /\ user_roles' \subseteq user_roles ]_vars

\* The user form still offers a role its user already holds, and the
\* assignment of one has been refused.
C25_Witness ==
  /\ tab = "users"
  /\ editingUser # NoEdit
  /\ toast = "error"
  /\ nOps >= 2
  /\ \E r \in Assignable : << editingUser.user_id, r >> \in user_roles

\* ------------------------------------------------------------------ C26
\* C26: useRBAC exposes no permissions fetched for somebody else: once
\* loading is false, the permissions state of the mounted hook is empty or
\* is what get_user_permissions returns for the current user.
C26_OwnPermissions ==
  (Mounted /\ ~loading /\ permissions # << >>) =>
     /\ user # NoUser
     /\ permissions = get_user_permissions(roles, user_roles, user)

C23_ClearTenant ==
  [][ (ingest.handler = "clear" /\ ingest.pc = "start"
         /\ ingest'.pc = "done") =>
        /\ SelectSeq(knowledge_base',
                     LAMBDA row : row.client_id # ingest.clientId) =
             SelectSeq(knowledge_base,
                       LAMBDA row : row.client_id # ingest.clientId)
        /\ ingest'.response.kind = "success" =>
             \A i \in 1..Len(knowledge_base') :
               knowledge_base'[i].client_id # ingest.clientId
        /\ (ingest.clientId = NULL \/ ingest'.response.kind = "none") =>
             knowledge_base' = knowledge_base ]_vars

\* ------------------------------------------------------------------ C24
\* C24: every client has a company: no row of clients has company_id NULL;
\* a tenant created through CreateTenantDialog gets the company_id of the
\* creating user's profile; a user without company_id is refused with the
\* error toast and nothing is written; a tenant update leaves company_id
\* as it is.
C24_CompanyRequired ==
  /\ [](\A c \in DOMAIN clients : clients[c].company_id # NULL)
  /\ [][ /\ CreateTenant =>
              /\ \A c \in DOMAIN clients' \ DOMAIN clients :
                   /\ profiles[actor].company_id # NULL
                   /\ clients'[c].company_id = profiles[actor].company_id
              /\ profiles[actor].company_id = NULL =>
                   toast' = "error" /\ clients' = clients
         /\ UpdateTenant =>
              /\ DOMAIN clients' = DOMAIN clients
              /\ \A c \in DOMAIN clients :
                   clients'[c].company_id = clients[c].company_id ]_vars

\* ------------------------------------------------------------------ C27
\* C27: the three super-admin predicates agree for every user: isSuperAdmin
\* of the permissions get_user_permissions returns, is_super_admin (a role
\* named 'Super Admin' is assigned) and user_is_super_admin (profiles.role
\* = 'super_admin'); and the user to whom the gate of TenantManagement
\* shows the page is allowed by the policies of clients to write tenants.
C27_SuperAdminAgree ==
  /\ \A u \in Users :
       /\ isSuperAdmin(get_user_permissions(roles, user_roles, u)) <=>
            is_super_admin(roles, user_roles, u)
       /\ is_super_admin(roles, user_roles, u) <=>
            user_is_super_admin(profiles, u)
  /\ (page = "tenants" /\ screen = "content") =>
       user_is_super_admin(profiles, user)

\* ------------------------------------------------------------------ C28
\* C28: a mutation that ends with the success toast issues a re-fetch of
\* the whole list, answered from the tables as the mutation left them; and
\* once no re-fetch is in flight (and none has failed) the list a mounted
\* component shows is the stored collection as its user may see it: the
\* roles of RoleManagement, the tenants of the TenantTable.
C28_RefetchConverges ==
  /\ [][ (nOps' = nOps + 1 /\ toast' = "success") =>
           /\ tab = "roles" => roles' \in rmFetches'
           /\ tab = "users" =>
                \E f \in umFetches' : f.stage = "all" /\ f.roles = roles'
           /\ tview # "none" =>
                FetchTenantsSnapshot(clients') \in tenantFetches' ]_vars
  /\ []((tab = "roles" /\ rmFetches = {} /\ toast # "error") =>
          rmRoles = roles)
  /\ []((tview = "list" /\ tenantFetches = {} /\ toast # "error") =>
          tenants = FetchTenantsSnapshot(clients))

\* ------------------------------------------------------------------ C30
\* The company that owns the client of a knowledge entry is the caller's.
OwnCompany(client_id) ==
  /\ client_id \in DOMAIN clients
  /\ SqlEq(clients[client_id].company_id,
           get_user_company_id(profiles, actor))

\* C30: tenant isolation of the knowledge base: whatever clientId the
\* request carries, the entries match_documents hands to the RAG chat
\* function, which puts their content into the prompt and reports their
\* number to the caller, are global entries or entries of a client of the
\* caller's company.
C30_TenantIsolation ==
  \A i \in 1..Len(rag.docs) :
    rag.docs[i].client_id = NULL \/ OwnCompany(rag.docs[i].client_id)

====
